---------------------------- MODULE Spec2Model ----------------------------
(***************************************************************************)
(* Podcast Sentiment Explorer (src/app.py): one render pass of the script  *)
(* over a loaded CSV, and the keyword extractor as a pure function.        *)
(*                                                                         *)
(* Strings are sequences of one-character strings, so that lower(),        *)
(* strip(), the regular expressions and substring search are computed      *)
(* character by character.  A missing CSV cell (NaN) is the one-element    *)
(* sequence NaN, which no string equals because its element is not a       *)
(* single character.  pandas semantics are those of pandas 1.x/2.x, where  *)
(* astype(str) turns a missing value into the string "nan".                *)
(***************************************************************************)
EXTENDS Integers, Sequences, FiniteSets, TLC

(***************************************************************************)
(* Characters and strings                                                  *)
(***************************************************************************)
UPPER ==
  <<"A","B","C","D","E","F","G","H","I","J","K","L","M",
    "N","O","P","Q","R","S","T","U","V","W","X","Y","Z">>

LOWER ==
  <<"a","b","c","d","e","f","g","h","i","j","k","l","m",
    "n","o","p","q","r","s","t","u","v","w","x","y","z">>

Range(s) == {s[i] : i \in DOMAIN s}

Letters == Range(UPPER) \cup Range(LOWER)

Digits == {"0","1","2","3","4","5","6","7","8","9"}

Whitespace == {" ", "\t", "\n", "\r"}

NaN == <<"NaN">>

IsNull(v) == v = NaN

\* str.lower() on one character
LowerChar(c) ==
  IF \E i \in DOMAIN UPPER : UPPER[i] = c
  THEN LOWER[CHOOSE i \in DOMAIN UPPER : UPPER[i] = c]
  ELSE c

\* str.lower()
Lower(s) == [i \in DOMAIN s |-> LowerChar(s[i])]

\* str.strip(): drop leading and trailing whitespace
Strip(s) ==
  LET idx == {i \in DOMAIN s : s[i] \notin Whitespace}
  IN  IF idx = {} THEN <<>>
      ELSE LET lo == CHOOSE i \in idx : \A j \in idx : i <= j
               hi == CHOOSE i \in idx : \A j \in idx : i >= j
           IN  SubSeq(s, lo, hi)

\* Series.astype(str) on one cell: a missing value becomes the string "nan"
AsStr(v) == IF IsNull(v) THEN <<"n","a","n">> ELSE v

\* the characters of s from position i on start with the string p
StartsAt(s, i, p) ==
  /\ i + Len(p) - 1 <= Len(s)
  /\ \A k \in 1..Len(p) : s[i + k - 1] = p[k]

\* end (inclusive) of the maximal run of characters of class C starting at i
RECURSIVE RunEnd(_, _, _)
RunEnd(s, i, C) ==
  IF i + 1 <= Len(s) /\ s[i + 1] \in C THEN RunEnd(s, i + 1, C) ELSE i

(***************************************************************************)
(* tokenize                                                                *)
(***************************************************************************)
HTTP == <<"h","t","t","p">>

WWWDOT == <<"w","w","w",".">>

\* a match of  http\S+|www\.\S+  starts at i: the prefix and one more \S
UrlAt(s, i) ==
  /\ StartsAt(s, i, HTTP) \/ StartsAt(s, i, WWWDOT)
  /\ i + 4 <= Len(s)
  /\ s[i + 4] \notin Whitespace

\* re.sub(r"http\S+|www\.\S+", " ", s): each leftmost match, extended over
\* the whole run of non-whitespace, is replaced by one blank
RECURSIVE SubUrlsFrom(_, _)
SubUrlsFrom(s, i) ==
  IF i > Len(s) THEN <<>>
  ELSE IF UrlAt(s, i)
       THEN <<" ">> \o SubUrlsFrom(s, RunEnd(s, i + 4, Range(s) \ Whitespace) + 1)
       ELSE <<s[i]>> \o SubUrlsFrom(s, i + 1)

SubUrls(s) == SubUrlsFrom(s, 1)

WordChars == Letters \cup {"'"}

\* re.findall(r"[a-zA-Z']+", s): the maximal runs of word characters
RECURSIVE FindWordsFrom(_, _)
FindWordsFrom(s, i) ==
  IF i > Len(s) THEN <<>>
  ELSE IF s[i] \in WordChars
       THEN LET e == RunEnd(s, i, WordChars)
            IN  <<SubSeq(s, i, e)>> \o FindWordsFrom(s, e + 1)
       ELSE FindWordsFrom(s, i + 1)

FindWords(s) == FindWordsFrom(s, 1)

tokenize(text) == FindWords(SubUrls(Lower(text)))

(***************************************************************************)
(* extract_top_keywords                                                    *)
(***************************************************************************)
STOPWORDS ==
  {
    <<"a">>, <<"a","n">>, <<"a","n","d">>, <<"a","r","e">>, <<"a","s">>, <<"a","t">>,
    <<"b","e">>, <<"b","u","t">>, <<"b","y">>, <<"f","o","r">>, <<"f","r","o","m">>,
    <<"h","a","s">>, <<"h","a","v","e">>, <<"h","e">>, <<"h","e","r">>, <<"h","e","r","s">>,
    <<"h","i","m">>, <<"h","i","s">>, <<"i">>, <<"i","f">>, <<"i","n">>, <<"i","n","t","o">>,
    <<"i","s">>, <<"i","t">>, <<"i","t","s">>, <<"j","u","s","t">>, <<"m","e">>, <<"m","y">>,
    <<"n","o">>, <<"n","o","t">>, <<"o","f">>, <<"o","n">>, <<"o","r">>, <<"o","u","r">>,
    <<"o","u","r","s">>, <<"s","h","e">>, <<"s","o">>, <<"t","h","a","t">>, <<"t","h","e">>,
    <<"t","h","e","i","r">>, <<"t","h","e","m">>, <<"t","h","e","n">>, <<"t","h","e","r","e">>,
    <<"t","h","e","s","e">>, <<"t","h","e","y">>, <<"t","h","i","s">>, <<"t","o">>,
    <<"t","o","o">>, <<"u","p">>, <<"w","a","s">>, <<"w","e">>, <<"w","e","r","e">>,
    <<"w","h","a","t">>, <<"w","h","e","n">>, <<"w","h","e","r","e">>, <<"w","h","i","c","h">>,
    <<"w","h","o">>, <<"w","i","l","l">>, <<"w","i","t","h">>, <<"y","o","u">>,
    <<"y","o","u","r">>, <<"y","o","u","r","s">>
  }

\* str.isnumeric(): non-empty and every character numeric
IsNumeric(w) == Len(w) > 0 /\ \A i \in DOMAIN w : w[i] \in Digits

\* mutant: the stopword test is left out
KeepToken_NoStopwords(w, min_len) ==
  /\ ~(Len(w) < min_len)
  /\ ~IsNumeric(w)

\* the three `continue` tests of the inner loop
KeepToken(w, min_len) ==
  /\ ~(Len(w) < min_len)
  /\ ~(w \in STOPWORDS)
  /\ ~IsNumeric(w)

\* tokens kept from one text, in order
TokensOf(text, min_len) ==
  LET Keep(w) == KeepToken(w, min_len)
  IN  SelectSeq(tokenize(text), Keep)

\* series.dropna().astype(str), then the double loop: the list `tokens`
RECURSIVE CollectTokens(_, _)
CollectTokens(series, min_len) ==
  IF series = <<>> THEN <<>>
  ELSE LET t == Head(series)
       IN  (IF IsNull(t) THEN <<>> ELSE TokensOf(AsStr(t), min_len))
             \o CollectTokens(Tail(series), min_len)

\* Counter(tokens): (token, count) items in order of first insertion
RECURSIVE CounterFrom(_, _)
CounterFrom(tokens, items) ==
  IF tokens = <<>> THEN items
  ELSE LET w == Head(tokens)
           new == IF \E i \in DOMAIN items : items[i].keyword = w
                  THEN [i \in DOMAIN items |->
                          IF items[i].keyword = w
                          THEN [items[i] EXCEPT !.count = @ + 1]
                          ELSE items[i]]
                  ELSE Append(items, [keyword |-> w, count |-> 1])
       IN  CounterFrom(Tail(tokens), new)

Counter(tokens) == CounterFrom(tokens, <<>>)

\* s without its element at position i
RemoveAt(s, i) == SubSeq(s, 1, i - 1) \o SubSeq(s, i + 1, Len(s))

\* mutant: among equal counts the last inserted item is taken first
RECURSIVE most_common_LastTie(_, _)
most_common_LastTie(items, n) ==
  IF n <= 0 \/ items = <<>> THEN <<>>
  ELSE LET best == CHOOSE i \in DOMAIN items :
                     /\ \A j \in DOMAIN items : items[j].count <= items[i].count
                     /\ \A j \in DOMAIN items :
                          items[j].count = items[i].count => j <= i
       IN  <<items[best]>> \o most_common_LastTie(RemoveAt(items, best), n - 1)

\* Counter.most_common(n) = sorted(items, key=count, reverse=True)[:n], a
\* stable sort: among equal counts the earlier inserted item comes first
RECURSIVE most_common(_, _)
most_common(items, n) ==
  IF n <= 0 \/ items = <<>> THEN <<>>
  ELSE LET best == CHOOSE i \in DOMAIN items :
                     /\ \A j \in DOMAIN items : items[j].count <= items[i].count
                     /\ \A j \in DOMAIN items :
                          items[j].count = items[i].count => i <= j
       IN  <<items[best]>> \o most_common(RemoveAt(items, best), n - 1)

\* the rows of the returned DataFrame, columns keyword and count
extract_top_keywords(series, top_n, min_len) ==
  most_common(Counter(CollectTokens(series, min_len)), top_n)

(***************************************************************************)
(* Constants of the script                                                 *)
(***************************************************************************)
\* mutant: the last accepted name is forgotten
TEXT_COL_CANDIDATES_NoBody == <<"text", "comment", "comment_text">>

TEXT_COL_CANDIDATES == <<"text", "comment", "comment_text", "body">>

SENT_COL_CANDIDATES == <<"bert_label_norm", "sentiment", "label">>

EPISODE_COL == "episode_title"

\* the value None of text_col and sent_col
NoCol == "None"

UNKNOWN == <<"u","n","k","n","o","w","n">>

ALL_COMMENTS == <<"A","l","l"," ","c","o","m","m","e","n","t","s">>

ALL_EPISODES == <<"A","l","l"," ","e","p","i","s","o","d","e","s">>

NONE_KW == <<"(","n","o","n","e",")">>

ALL == <<"a","l","l">>

POSITIVE == <<"p","o","s","i","t","i","v","e">>

NEUTRAL == <<"n","e","u","t","r","a","l">>

NEGATIVE == <<"n","e","g","a","t","i","v","e">>

\* the three keyword tables and the KPI labels
KW_LABELS == <<POSITIVE, NEUTRAL, NEGATIVE>>

\* options of the sentiment radio
SENTIMENT_OPTIONS == <<ALL, POSITIVE, NEUTRAL, NEGATIVE>>

\* st.slider("Top N keywords", min_value=5, max_value=50, value=20)
TopNMin == 5

TopNDefault == 20

TopNMax == 50

\* st.slider("Minimum word length", min_value=2, max_value=6, value=3)
MinLenMin == 2

MinLenDefault == 3

MinLenMax == 6

\* top_n of the drilldown keyword list
DrillTopN == 50

(***************************************************************************)
(* DataFrames: a set of columns and a sequence of rows; a row keeps its    *)
(* index label idx and its cells, one per column                           *)
(***************************************************************************)
EmptyFrame == [cols |-> {}, rows |-> <<>>]

\* next((c for c in candidates if c in df.columns), None)
FirstPresent(candidates, cols) ==
  IF \E i \in DOMAIN candidates : candidates[i] \in cols
  THEN candidates[CHOOSE i \in DOMAIN candidates :
                    /\ candidates[i] \in cols
                    /\ \A j \in DOMAIN candidates : candidates[j] \in cols => i <= j]
  ELSE NoCol

\* df[col] as a sequence of values, one per row
Column(df, col) == [i \in DOMAIN df.rows |-> df.rows[i].cells[col]]

\* a scalar broadcast to one value per row
Broadcast(df, v) == [i \in DOMAIN df.rows |-> v]

\* df[name] = values: the column is added, or replaced when it exists
SetCol(df, name, values) ==
  [cols |-> df.cols \cup {name},
   rows |-> [i \in DOMAIN df.rows |->
               [df.rows[i] EXCEPT !.cells =
                  [c \in df.cols \cup {name} |->
                     IF c = name THEN values[i] ELSE df.rows[i].cells[c]]]]]

\* df[mask]: the rows whose mask entry is true, in order, with their index
\* labels
FilterRows(df, mask) ==
  LET Kept(i) == mask[i]
      kept == SelectSeq([i \in DOMAIN df.rows |-> i], Kept)
  IN  [df EXCEPT !.rows = [k \in DOMAIN kept |-> df.rows[kept[k]]]]

\* series == value, element by element
EqMask(series, v) == [i \in DOMAIN series |-> series[i] = v]

(***************************************************************************)
(* Column resolution                                                       *)
(***************************************************************************)
\* df["_text"] = df[text_col].astype(str)
WithText(df, text_col) ==
  LET col == Column(df, text_col)
  IN  SetCol(df, "_text", [i \in DOMAIN col |-> AsStr(col[i])])

\* mutant: the sentiment values are not normalised
WithSentiment_Raw(df, sent_col) ==
  IF sent_col = NoCol
  THEN SetCol(df, "_sentiment", Broadcast(df, UNKNOWN))
  ELSE LET col == Column(df, sent_col)
       IN  SetCol(df, "_sentiment", [i \in DOMAIN col |-> AsStr(col[i])])

\* df["_sentiment"] = "unknown", or astype(str).str.lower().str.strip()
WithSentiment(df, sent_col) ==
  IF sent_col = NoCol
  THEN SetCol(df, "_sentiment", Broadcast(df, UNKNOWN))
  ELSE LET col == Column(df, sent_col)
       IN  SetCol(df, "_sentiment",
                  [i \in DOMAIN col |-> Strip(Lower(AsStr(col[i])))])

\* df["_episode"] = df[EPISODE_COL].astype(str), or "All comments"
WithEpisode(df, has_ep) ==
  IF has_ep
  THEN LET col == Column(df, EPISODE_COL)
       IN  SetCol(df, "_episode", [i \in DOMAIN col |-> AsStr(col[i])])
  ELSE SetCol(df, "_episode", Broadcast(df, ALL_COMMENTS))

\* the frame after the three assignments of derived columns
Resolved(df) ==
  WithEpisode(
    WithSentiment(
      WithText(df, FirstPresent(TEXT_COL_CANDIDATES, df.cols)),
      FirstPresent(SENT_COL_CANDIDATES, df.cols)),
    EPISODE_COL \in df.cols)

(***************************************************************************)
(* Episode filter                                                          *)
(***************************************************************************)
\* ["All episodes"] + sorted(df["_episode"].dropna().unique().tolist()),
\* as the set of options the selectbox offers
EpisodeList(df) ==
  {ALL_EPISODES} \cup {v \in Range(Column(df, "_episode")) : ~IsNull(v)}

\* mutant: the sentinel is not recognised
EpisodeSelect_NoSentinel(df, choice) ==
  FilterRows(df, EqMask(Column(df, "_episode"), choice))

\* df[df["_episode"] == episode_choice] unless "All episodes" is chosen
EpisodeSelect(df, choice) ==
  IF choice # ALL_EPISODES
  THEN FilterRows(df, EqMask(Column(df, "_episode"), choice))
  ELSE df

(***************************************************************************)
(* Overview: KPIs and the sentiment aggregate                              *)
(***************************************************************************)
\* df["_sentiment"].eq(label).sum()
CountLabel(df, label) ==
  LET mask == EqMask(Column(df, "_sentiment"), label)
  IN  Cardinality({i \in DOMAIN mask : mask[i]})

\* a quotient kept exact as <<numerator, denominator>>; a zero divisor
\* gives DivByZero (numpy: nan or inf with a warning)
DivByZero == <<0, 0>>

Quot(a, b) == IF b = 0 THEN DivByZero ELSE <<a, b>>

\* pct_for(label), with total_comments = len(df)
pct_for(df, label) ==
  IF Len(df.rows) = 0 THEN <<0, 1>>
  ELSE Quot(CountLabel(df, label) * 100, Len(df.rows))

\* round(x, 2) of the exact quotient a/b >= 0, in hundredths, half to even
Round2(a, b) ==
  LET n == a * 100
      f == n \div b
      r == n % b
  IN  IF 2 * r > b \/ (2 * r = b /\ f % 2 = 1) THEN f + 1 ELSE f

\* max(total_comments, 1)
Max1(n) == IF n > 1 THEN n ELSE 1

\* mutant: rows whose label is the string "nan" fall out of the groups
GroupSizes_DropNan(df) ==
  LET labels == Range(Column(df, "_sentiment")) \ {AsStr(NaN)}
  IN  [l \in labels |-> CountLabel(df, l)]

\* df.groupby("_sentiment").size(): one count per label that occurs
GroupSizes(df) ==
  LET labels == Range(Column(df, "_sentiment"))
  IN  [l \in labels |-> CountLabel(df, l)]

\* sent_counts with its percentage column, as a mapping from label
SentCounts(df) ==
  LET sizes == GroupSizes(df)
  IN  [l \in DOMAIN sizes |->
         [count |-> sizes[l],
          percentage |-> Round2(sizes[l] * 100, Max1(Len(df.rows)))]]

(***************************************************************************)
(* Text matching: Series.str.contains(pat, case=False, na=False)           *)
(***************************************************************************)
\* The patterns modelled are made of ordinary characters, "." and "(".
\* re.compile fails on a "(" that is never closed.
RegexInvalid(pat) == \E i \in DOMAIN pat : pat[i] = "("

\* one pattern character against one text character under re.IGNORECASE
CharMatches(p, c) ==
  IF p = "." THEN c # "\n" ELSE LowerChar(p) = LowerChar(c)

\* regex.search(text) is not None
RegexSearch(pat, text) ==
  \E i \in 1..(Len(text) + 1) :
    /\ i + Len(pat) - 1 <= Len(text)
    /\ \A k \in 1..Len(pat) : CharMatches(pat[k], text[i + k - 1])

\* mutant: the match is case sensitive
Contains_CaseSensitive(v, pat) ==
  IF IsNull(v) THEN FALSE
  ELSE \E i \in 1..(Len(v) + 1) :
         /\ i + Len(pat) - 1 <= Len(v)
         /\ \A k \in 1..Len(pat) : pat[k] = "." \/ pat[k] = v[i + k - 1]

\* one cell of the boolean mask; a missing value gives na=False
Contains(v, pat) == IF IsNull(v) THEN FALSE ELSE RegexSearch(pat, v)

\* df[df["_text"].str.contains(pat, case=False, na=False)]
ContainsFilter(df, pat) ==
  LET col == Column(df, "_text")
  IN  FilterRows(df, [i \in DOMAIN col |-> Contains(col[i], pat)])

\* filtered_df[filtered_df["_sentiment"] == sentiment_choice] unless "all"
SentimentSelect(df, sent_col, choice) ==
  IF sent_col # NoCol /\ choice # ALL
  THEN FilterRows(df, EqMask(Column(df, "_sentiment"), choice))
  ELSE df


(***************************************************************************)
(* Inputs                                                                  *)
(***************************************************************************)
\* most rows of an uploaded CSV
MaxRows == 2

T_ILoveIt == <<"I"," ","l","o","v","e"," ","i","t">>

T_NotOk == <<"N","o","t"," ","O","K">>

T_Loved == <<"l","o","v","e","d">>

T_Url == <<"I","t","'","s"," ","w","w","w",".","a","b">>

S_Positive == <<" ","P","o","s","i","t","i","v","e">>

E_Ep1 == <<"E","p","1">>

X_Other == <<"x">>

\* cell values of a text column, with and without missing values
RichText == {NaN, T_ILoveIt, T_NotOk, T_Loved, T_Url}

PlainText == {T_ILoveIt, T_NotOk}

OneText == {T_ILoveIt}

\* cell values of a sentiment column
SentVals == {S_Positive, NEGATIVE, NaN}

\* cell values of the episode column; a title may equal the sentinel
EpVals == {E_Ep1, ALL_EPISODES}

\* the CSV shapes uploaded: for every column the values its cells take
CsvShapes ==
  { ("author" :> {X_Other}),
    ("text" :> RichText),
    ("comment" :> PlainText) @@ ("body" :> PlainText),
    ("text" :> PlainText) @@ ("sentiment" :> SentVals),
    ("body" :> OneText) @@ ("label" :> {NEGATIVE}) @@ ("sentiment" :> SentVals),
    ("comment_text" :> PlainText) @@ ("bert_label_norm" :> {S_Positive, NEGATIVE})
       @@ ("episode_title" :> EpVals),
    ("text" :> OneText) @@ ("_text" :> {X_Other}) @@ ("_sentiment" :> {X_Other})
       @@ ("_episode" :> {X_Other}),
    ("sentiment" :> {NEGATIVE}) @@ ("episode_title" :> {E_Ep1}) }

\* the rows a shape allows
RowsOf(shape) ==
  LET vals == UNION {shape[c] : c \in DOMAIN shape}
  IN  {f \in [DOMAIN shape -> vals] : \A c \in DOMAIN shape : f[c] \in shape[c]}

\* pd.read_csv: the frames with at most MaxRows rows, index labels 0, 1, ...
FramesOf(shape) ==
  UNION {
    {[cols |-> DOMAIN shape,
      rows |-> [i \in 1..n |-> [idx |-> i - 1, cells |-> cs[i]]]] :
        cs \in [1..n -> RowsOf(shape)]} : n \in 0..MaxRows}

Datasets == UNION {FramesOf(shape) : shape \in CsvShapes}

\* the demo file podcast_sentiment_demo.csv, when it exists
DemoFrame ==
  [cols |-> {"text", "bert_label_norm"},
   rows |-> <<[idx |-> 0, cells |-> ("text" :> T_ILoveIt) @@ ("bert_label_norm" :> POSITIVE)],
              [idx |-> 1, cells |-> ("text" :> T_NotOk) @@ ("bert_label_norm" :> NEGATIVE)]>>]

\* what the user types into the search box
Queries ==
  { <<>>, <<" ">>, <<" ","L","o","v","e">>, <<".">>, <<"(">>, <<"n","a","n">> }

TopNChoices == {TopNMin, TopNMax}

MinLenChoices == MinLenMin..MinLenMax

(***************************************************************************)
(* State                                                                   *)
(***************************************************************************)
VARIABLES
  uploaded_file,     \* [present, data]: the uploaded CSV, if any
  default_file,      \* [present, data]: the demo file, if it exists
  pc,                \* the section of the script to run next
  ran,               \* the sections run in this pass
  message,           \* the st.error / exception that ended the pass, if any
  df,
  text_col,
  sent_col,
  has_episode,
  episode_choice,
  total_comments,
  kpi,               \* pos_pct, neu_pct, neg_pct, by label
  sent_counts,
  top_n,
  min_len,
  kw_tables,         \* the keyword tables shown: one, or one per label
  kw_all,
  chosen_kw,
  drill_df,
  sentiment_choice,
  query,
  filtered_df,
  kw_series,         \* arguments and result of a direct call of
  kw_top_n,          \*   extract_top_keywords
  kw_min_len,
  kw_result,
  kw_called

inputVars == <<uploaded_file, default_file>>

passVars ==
  <<df, text_col, sent_col, has_episode, episode_choice, total_comments, kpi,
    sent_counts, top_n, min_len, kw_tables, kw_all, chosen_kw, drill_df,
    sentiment_choice, query, filtered_df>>

callVars == <<kw_series, kw_top_n, kw_min_len, kw_result, kw_called>>

vars == <<inputVars, pc, ran, message, passVars, callVars>>

NoFile == [present |-> FALSE, data |-> EmptyFrame]

File(d) == [present |-> TRUE, data |-> d]

NoCall ==
  /\ kw_series = <<>>
  /\ kw_top_n = 0
  /\ kw_min_len = 0
  /\ kw_result = <<>>
  /\ kw_called = FALSE

Init ==
  /\ \/ \E d \in Datasets : uploaded_file = File(d) /\ default_file = NoFile
     \/ uploaded_file = NoFile /\ default_file \in {NoFile, File(DemoFrame)}
  /\ pc = "load"
  /\ ran = {}
  /\ message = ""
  \* the script's variables before the pass assigns them
  /\ df = EmptyFrame
  /\ text_col = NoCol
  /\ sent_col = NoCol
  /\ has_episode = FALSE
  /\ episode_choice = <<>>
  /\ total_comments = 0
  /\ kpi = <<>>
  /\ sent_counts = <<>>
  /\ top_n = TopNDefault
  /\ min_len = MinLenDefault
  /\ kw_tables = <<>>
  /\ kw_all = <<>>
  /\ chosen_kw = NONE_KW
  /\ drill_df = EmptyFrame
  /\ sentiment_choice = ALL
  /\ query = <<>>
  /\ filtered_df = EmptyFrame
  /\ NoCall

(***************************************************************************)
(* The render pass, section by section                                     *)
(***************************************************************************)
Goto(section, next) ==
  /\ pc = section
  /\ pc' = next
  /\ ran' = ran \cup {section}

Stop(section, msg) == Goto(section, "stopped") /\ message' = msg

\* lines 45-55
Load ==
  IF uploaded_file.present
  THEN /\ Goto("load", "resolve")
       /\ df' = uploaded_file.data
       /\ UNCHANGED <<inputVars, message, callVars, text_col, sent_col, has_episode,
                      episode_choice, total_comments, kpi, sent_counts, top_n,
                      min_len, kw_tables, kw_all, chosen_kw, drill_df,
                      sentiment_choice, query, filtered_df>>
  ELSE IF default_file.present
  THEN /\ Goto("load", "resolve")
       /\ df' = default_file.data
       /\ UNCHANGED <<inputVars, message, callVars, text_col, sent_col, has_episode,
                      episode_choice, total_comments, kpi, sent_counts, top_n,
                      min_len, kw_tables, kw_all, chosen_kw, drill_df,
                      sentiment_choice, query, filtered_df>>
  ELSE /\ Stop("load", "default file not found")
       /\ UNCHANGED <<inputVars, callVars, passVars>>

\* lines 62-95
Resolve ==
  LET tc == FirstPresent(TEXT_COL_CANDIDATES, df.cols)
      sc == FirstPresent(SENT_COL_CANDIDATES, df.cols)
      he == EPISODE_COL \in df.cols
  IN  IF tc = NoCol
      THEN /\ Stop("resolve", "missing text column")
           /\ UNCHANGED <<inputVars, callVars, passVars>>
      ELSE /\ Goto("resolve", "episode")
           /\ text_col' = tc
           /\ sent_col' = sc
           /\ has_episode' = he
           /\ df' = Resolved(df)
           /\ UNCHANGED <<inputVars, message, callVars, episode_choice,
                          total_comments, kpi, sent_counts, top_n, min_len,
                          kw_tables, kw_all, chosen_kw, drill_df,
                          sentiment_choice, query, filtered_df>>

\* lines 101-110
EpisodeFilter ==
  /\ Goto("episode", "overview")
  /\ IF has_episode
     THEN \E choice \in EpisodeList(df) :
            /\ episode_choice' = choice
            /\ df' = EpisodeSelect(df, choice)
     ELSE UNCHANGED <<episode_choice, df>>
  /\ UNCHANGED <<inputVars, message, callVars, text_col, sent_col, has_episode,
                 total_comments, kpi, sent_counts, top_n, min_len, kw_tables,
                 kw_all, chosen_kw, drill_df, sentiment_choice, query, filtered_df>>

\* lines 118-168
Overview ==
  /\ Goto("overview", "keywords")
  /\ total_comments' = Len(df.rows)
  /\ kpi' = [i \in DOMAIN KW_LABELS |-> pct_for(df, KW_LABELS[i])]
  /\ sent_counts' = SentCounts(df)
  /\ UNCHANGED <<inputVars, message, callVars, df, text_col, sent_col, has_episode,
                 episode_choice, top_n, min_len, kw_tables, kw_all, chosen_kw,
                 drill_df, sentiment_choice, query, filtered_df>>

\* the tables of lines 215-229: one over all rows, or one per label
KeywordTables(d, sc, n, m) ==
  IF sc = NoCol
  THEN <<[label |-> ALL, rows |-> extract_top_keywords(Column(d, "_text"), n, m)]>>
  ELSE [i \in DOMAIN KW_LABELS |->
          LET subset == FilterRows(d, EqMask(Column(d, "_sentiment"), KW_LABELS[i]))
          IN  [label |-> KW_LABELS[i],
               rows |-> extract_top_keywords(Column(subset, "_text"), n, m)]]

\* lines 211-229
Keywords ==
  /\ Goto("keywords", "drilldown")
  /\ \E n \in TopNChoices, m \in MinLenChoices :
       /\ top_n' = n
       /\ min_len' = m
       /\ kw_tables' = KeywordTables(df, sent_col, n, m)
  /\ UNCHANGED <<inputVars, message, callVars, df, text_col, sent_col, has_episode,
                 episode_choice, total_comments, kpi, sent_counts, kw_all,
                 chosen_kw, drill_df, sentiment_choice, query, filtered_df>>

\* ["(none)"] + kw_all["keyword"].tolist()
KeywordOptions(kw) == <<NONE_KW>> \o [i \in DOMAIN kw |-> kw[i].keyword]

\* lines 239-248
Drilldown ==
  /\ pc = "drilldown"
  /\ LET kw == extract_top_keywords(Column(df, "_text"), DrillTopN, min_len)
     IN  \E chosen \in Range(KeywordOptions(kw)) :
           /\ kw_all' = kw
           /\ chosen_kw' = chosen
           /\ IF chosen # NONE_KW /\ RegexInvalid(chosen)
              THEN /\ Goto("drilldown", "error")
                   /\ message' = "re.error"
                   /\ drill_df' = df
              ELSE /\ Goto("drilldown", "explore")
                   /\ message' = message
                   /\ drill_df' = IF chosen # NONE_KW
                                  THEN ContainsFilter(df, chosen)
                                  ELSE df
  /\ UNCHANGED <<inputVars, callVars, df, text_col, sent_col, has_episode,
                 episode_choice, total_comments, kpi, sent_counts, top_n,
                 min_len, kw_tables, sentiment_choice, query, filtered_df>>

\* lines 274-297
Explore ==
  /\ pc = "explore"
  /\ \E choice \in (IF sent_col # NoCol THEN Range(SENTIMENT_OPTIONS) ELSE {ALL}),
        q \in Queries :
       LET selected == SentimentSelect(df, sent_col, choice)
       IN  /\ sentiment_choice' = choice
           /\ query' = q
           /\ IF Strip(q) # <<>> /\ RegexInvalid(Strip(q))
              THEN /\ Goto("explore", "error")
                   /\ message' = "re.error"
                   /\ filtered_df' = selected
              ELSE /\ Goto("explore", "done")
                   /\ message' = message
                   /\ filtered_df' = IF Strip(q) # <<>>
                                     THEN ContainsFilter(selected, Strip(q))
                                     ELSE selected
  /\ UNCHANGED <<inputVars, callVars, df, text_col, sent_col, has_episode,
                 episode_choice, total_comments, kpi, sent_counts, top_n,
                 min_len, kw_tables, kw_all, chosen_kw, drill_df>>

\* a user interaction re-runs the script from the top on the same file
Rerun ==
  /\ pc \in {"done", "stopped", "error"}
  /\ pc' = "load"
  /\ ran' = {}
  /\ message' = ""
  /\ df' = EmptyFrame
  /\ text_col' = NoCol
  /\ sent_col' = NoCol
  /\ has_episode' = FALSE
  /\ episode_choice' = <<>>
  /\ total_comments' = 0
  /\ kpi' = <<>>
  /\ sent_counts' = <<>>
  /\ top_n' = TopNDefault
  /\ min_len' = MinLenDefault
  /\ kw_tables' = <<>>
  /\ kw_all' = <<>>
  /\ chosen_kw' = NONE_KW
  /\ drill_df' = EmptyFrame
  /\ sentiment_choice' = ALL
  /\ query' = <<>>
  /\ filtered_df' = EmptyFrame
  /\ UNCHANGED <<inputVars, callVars>>

Next ==
  \/ Load
  \/ Resolve
  \/ EpisodeFilter
  \/ Overview
  \/ Keywords
  \/ Drilldown
  \/ Explore
  \/ Rerun

Spec == Init /\ [][Next]_vars


(***************************************************************************)
(* extract_top_keywords called directly                                    *)
(***************************************************************************)
\* most texts of the series, largest top_n and largest min_len of a call
MaxSeries == 3

MaxTopN == 3

MaxMinLen == 4

K_OkLoveCat == <<"o","k"," ","l","o","v","e"," ","c","a","t">>

K_Url == <<"C","a","t"," ","w","w","w",".","x",".","y","z"," ","d","o","g">>

K_Dogs == <<"T","h","e"," ","d","o","g","'","s"," ","O","K"," ","4","2">>

K_Love == <<"l","o","v","e"," ","L","O","V","E"," ","i","t">>

K_DogCat == <<"d","o","g"," ","c","a","t">>

KwTexts == {NaN, K_OkLoveCat, K_Url, K_Dogs, K_Love, K_DogCat}

KwSeries == UNION {[1..n -> KwTexts] : n \in 0..MaxSeries}

InitKw ==
  /\ uploaded_file = NoFile
  /\ default_file = NoFile
  /\ pc = "call"
  /\ ran = {}
  /\ message = ""
  /\ df = EmptyFrame
  /\ text_col = NoCol
  /\ sent_col = NoCol
  /\ has_episode = FALSE
  /\ episode_choice = <<>>
  /\ total_comments = 0
  /\ kpi = <<>>
  /\ sent_counts = <<>>
  /\ top_n = TopNDefault
  /\ min_len = MinLenDefault
  /\ kw_tables = <<>>
  /\ kw_all = <<>>
  /\ chosen_kw = NONE_KW
  /\ drill_df = EmptyFrame
  /\ sentiment_choice = ALL
  /\ query = <<>>
  /\ filtered_df = EmptyFrame
  /\ kw_series \in KwSeries
  /\ kw_top_n \in 1..MaxTopN
  /\ kw_min_len \in 1..MaxMinLen
  /\ kw_result = <<>>
  /\ kw_called = FALSE

\* lines 194-209
CallExtract ==
  /\ pc = "call"
  /\ ~kw_called
  /\ kw_result' = extract_top_keywords(kw_series, kw_top_n, kw_min_len)
  /\ kw_called' = TRUE
  /\ UNCHANGED <<inputVars, pc, ran, message, passVars, kw_series, kw_top_n,
                 kw_min_len>>

NextKw == CallExtract

SpecKw == InitKw /\ [][NextKw]_vars

(***************************************************************************)
(* Properties of extract_top_keywords (SpecKw)                             *)
(***************************************************************************)
\* every token of the non-missing texts of a series, in input order
RECURSIVE RawTokens(_)
RawTokens(series) ==
  IF series = <<>> THEN <<>>
  ELSE (IF IsNull(Head(series)) THEN <<>> ELSE tokenize(Head(series)))
         \o RawTokens(Tail(series))

\* a token qualifies as a keyword
Qualifies(w, m) == Len(w) >= m /\ w \notin STOPWORDS /\ ~IsNumeric(w)

\* the qualifying tokens of a series, in input order
QualifyingSeq(series, m) ==
  LET Q(w) == Qualifies(w, m) IN SelectSeq(RawTokens(series), Q)

\* number of occurrences and first occurrence of w in toks
Occurrences(toks, w) == Cardinality({i \in DOMAIN toks : toks[i] = w})

FirstOccurrence(toks, w) ==
  CHOOSE i \in DOMAIN toks : toks[i] = w /\ \A j \in 1..(i - 1) : toks[j] # w

\* w1 ranks before w2: more frequent, or as frequent and seen first
RanksBefore(toks, w1, w2) ==
  \/ Occurrences(toks, w1) > Occurrences(toks, w2)
  \/ /\ Occurrences(toks, w1) = Occurrences(toks, w2)
     /\ FirstOccurrence(toks, w1) < FirstOccurrence(toks, w2)

\* result is the ranking of the tokens toks cut at n
IsRankedTop(result, toks, n) ==
  LET distinct == Range(toks)
      returned == {result[i].keyword : i \in DOMAIN result}
  IN  /\ Len(result) <= n
      /\ Len(result) = IF Cardinality(distinct) < n THEN Cardinality(distinct) ELSE n
      /\ \A i \in DOMAIN result :
           /\ result[i].keyword \in distinct
           /\ result[i].count = Occurrences(toks, result[i].keyword)
      /\ \A i, j \in DOMAIN result :
           i < j => RanksBefore(toks, result[i].keyword, result[j].keyword)
      /\ \A w \in distinct \ returned :
           \A i \in DOMAIN result : RanksBefore(toks, result[i].keyword, w)

\* C5: extract_top_keywords returns at most top_n (token, count) pairs, the
\* top_n most frequent qualifying tokens counted over all texts together, by
\* descending count and, among equal counts, by first appearance; an empty
\* series gives an empty result.
C5_TopKeywordsRanked ==
  kw_called =>
    /\ IsRankedTop(kw_result, QualifyingSeq(kw_series, kw_min_len), kw_top_n)
    /\ (kw_series = <<>> => kw_result = <<>>)

\* a call that cut the ranking at top_n and ordered two equally frequent
\* tokens
C5_Witness ==
  /\ kw_called
  /\ Cardinality(Range(QualifyingSeq(kw_series, kw_min_len))) > kw_top_n
  /\ Len(kw_result) >= 2
  /\ kw_result[1].count = kw_result[2].count

\* C6: no returned token is shorter than min_len and none is a stopword.
C6_NoShortNoStopword ==
  kw_called =>
    \A i \in DOMAIN kw_result :
      /\ Len(kw_result[i].keyword) >= kw_min_len
      /\ kw_result[i].keyword \notin STOPWORDS

\* a call whose texts held a stopword and a too short token, and that
\* returned keywords
C6_Witness ==
  /\ kw_called
  /\ kw_result # <<>>
  /\ LET raw == Range(RawTokens(kw_series))
     IN  /\ \E w \in raw : w \in STOPWORDS /\ Len(w) >= kw_min_len
         /\ \E w \in raw : w \notin STOPWORDS /\ Len(w) < kw_min_len

(***************************************************************************)
(* Properties of the render pass (Spec)                                    *)
(***************************************************************************)
\* the sections that follow a section in the script
After(section) ==
  CASE section = "load" -> {"resolve", "episode", "overview", "keywords", "drilldown", "explore"}
    [] section = "resolve" -> {"episode", "overview", "keywords", "drilldown", "explore"}
    [] section = "episode" -> {"overview", "keywords", "drilldown", "explore"}
    [] section = "overview" -> {"keywords", "drilldown", "explore"}
    [] section = "keywords" -> {"drilldown", "explore"}
    [] section = "drilldown" -> {"explore"}
    [] section = "explore" -> {}

\* the frame read by Load
Loaded == IF uploaded_file.present THEN uploaded_file.data ELSE default_file.data

AcceptedTextNames == {"text", "comment", "comment_text", "body"}

\* the sentiment column the spec names first among those present
SentimentSource(cols) ==
  IF "bert_label_norm" \in cols THEN "bert_label_norm"
  ELSE IF "sentiment" \in cols THEN "sentiment"
  ELSE IF "label" \in cols THEN "label"
  ELSE "None"

\* the loaded row a row of a derived frame comes from
Origin(r) == Loaded.rows[r.idx + 1]

\* the section has run and no later one has: the state it leaves.  The
\* sections after it leave df and its own results unchanged.
JustRan(section) == section \in ran /\ \A later \in After(section) : later \notin ran

\* sub holds rows of full only, in their order in full
IsSubFrame(sub, full) ==
  /\ sub.cols = full.cols
  /\ \A i \in DOMAIN sub.rows : \E j \in DOMAIN full.rows : sub.rows[i] = full.rows[j]
  /\ \A i, j \in DOMAIN sub.rows : i < j => sub.rows[i].idx < sub.rows[j].idx
  /\ Len(sub.rows) <= Len(full.rows)

\* C1: with none of text, comment, comment_text, body among the columns the
\* pass reports the missing column and halts: no derived field is added and
\* no later section runs; with one of them present the resolver does not halt.
C1_MissingTextHalts ==
  ("load" \in ran /\ (uploaded_file.present \/ default_file.present)) =>
    IF Loaded.cols \cap AcceptedTextNames = {}
    THEN /\ ran \subseteq {"load", "resolve"}
         /\ pc \in {"resolve", "stopped"}
         /\ (pc = "stopped" => message = "missing text column")
         /\ df = Loaded
         /\ episode_choice = <<>> /\ sent_counts = <<>> /\ kw_tables = <<>>
         /\ kw_all = <<>> /\ drill_df = EmptyFrame /\ filtered_df = EmptyFrame
    ELSE "resolve" \in ran =>
           /\ pc # "stopped"
           /\ {"_text", "_sentiment", "_episode"} \subseteq df.cols

\* a pass halted by the resolver on a file with rows
C1_Witness ==
  /\ pc = "stopped"
  /\ "resolve" \in ran
  /\ message = "missing text column"
  /\ Len(Loaded.rows) > 0

\* sum of the counts of an aggregate over the labels in S
RECURSIVE SumCounts(_, _)
SumCounts(agg, S) ==
  IF S = {} THEN 0
  ELSE LET l == CHOOSE x \in S : TRUE
       IN  agg[l].count + SumCounts(agg, S \ {l})

\* C4: the counts of the sentiment aggregate sum to the number of rows that
\* reach the aggregator, every listed label counts at least one row, and an
\* empty frame gives an empty aggregate and no division by zero.
C4_CountsSumToTotal ==
  "overview" \in ran =>
    /\ total_comments = Len(df.rows)
    /\ SumCounts(sent_counts, DOMAIN sent_counts) = total_comments
    /\ \A l \in DOMAIN sent_counts : sent_counts[l].count >= 1
    /\ \A i \in DOMAIN kpi : kpi[i] # DivByZero
    /\ (total_comments = 0 =>
          /\ DOMAIN sent_counts = {}
          /\ \A i \in DOMAIN kpi : kpi[i] = <<0, 1>>)

\* an aggregate with two labels over the rows of a selected episode
C4_Witness ==
  /\ "overview" \in ran
  /\ has_episode
  /\ episode_choice # ALL_EPISODES
  /\ Cardinality(DOMAIN sent_counts) >= 2

\* C7: every filter yields rows of its input in their original order, so a
\* further filter never adds rows; "All episodes", "all", an empty or blank
\* query and "(none)" leave the rows unchanged.
C7_FiltersShrink ==
  /\ JustRan("episode") =>
       /\ IsSubFrame(df, Resolved(Loaded))
       /\ (episode_choice = ALL_EPISODES => df = Resolved(Loaded))
  /\ JustRan("drilldown") =>
       /\ IsSubFrame(drill_df, df)
       /\ (chosen_kw = NONE_KW => drill_df = df)
  /\ JustRan("explore") =>
       LET Keep(r) == r.cells["_sentiment"] = sentiment_choice
           selected == IF sentiment_choice = ALL THEN df
                       ELSE [df EXCEPT !.rows = SelectSeq(df.rows, Keep)]
       IN  /\ IsSubFrame(filtered_df, selected)
           /\ IsSubFrame(filtered_df, df)
           /\ (Strip(query) = <<>> => filtered_df = selected)

\* a pass in which the episode selection and the explore filters each
\* dropped a row
C7_Witness ==
  /\ pc = "done"
  /\ episode_choice # ALL_EPISODES
  /\ Len(df.rows) < Len(Loaded.rows)
  /\ sentiment_choice # ALL
  /\ Strip(query) # <<>>
  /\ Len(filtered_df.rows) < Len(df.rows)

\* C8: without a sentiment column every derived sentiment is "unknown", the
\* sentiment filter is "all" and one keyword table is built over all rows;
\* with one, the derived sentiment is the lowercased, trimmed string form of
\* the first candidate column present.
C8_SentimentDerivation ==
  ("resolve" \in ran /\ pc # "stopped") =>
    LET src == SentimentSource(Loaded.cols)
    IN  IF src = "None"
        THEN /\ \A i \in DOMAIN df.rows : df.rows[i].cells["_sentiment"] = UNKNOWN
             /\ ("explore" \in ran => sentiment_choice = ALL)
             /\ (JustRan("keywords") =>
                   /\ Len(kw_tables) = 1
                   /\ IsRankedTop(kw_tables[1].rows,
                                  QualifyingSeq(Column(df, "_text"), min_len), top_n))
        ELSE /\ \A i \in DOMAIN df.rows :
                  df.rows[i].cells["_sentiment"]
                    = Strip(Lower(AsStr(Origin(df.rows[i]).cells[src])))
             /\ ("keywords" \in ran => Len(kw_tables) = 3)

\* a row whose sentiment cell had capitals and blanks, after the resolver
C8_Witness ==
  /\ pc = "done"
  /\ sent_col = "sentiment"
  /\ "label" \in Loaded.cols
  /\ \E i \in DOMAIN df.rows :
       /\ Origin(df.rows[i]).cells["sentiment"] = S_Positive
       /\ df.rows[i].cells["_sentiment"] = POSITIVE

\* q occurs in text as a literal substring, letter case ignored
LiteralContains(text, q) ==
  \E i \in 1..(Len(text) + 1) :
    /\ i + Len(q) - 1 <= Len(text)
    /\ \A k \in 1..Len(q) : LowerChar(q[k]) = LowerChar(text[i + k - 1])

\* C10: every keyword the drilldown offers matches at least one row of the
\* current frame, so the drilldown on an offered keyword is never empty (the
\* number of rows it keeps need not equal the keyword's count).
C10_OfferedKeywordMatches ==
  JustRan("drilldown") =>
    /\ pc # "error"
    /\ \A i \in DOMAIN kw_all :
         \E j \in DOMAIN df.rows :
           LiteralContains(df.rows[j].cells["_text"], kw_all[i].keyword)
    /\ (chosen_kw # NONE_KW => Len(drill_df.rows) >= 1)

\* a drilldown whose number of rows differs from the keyword's count
C10_Witness ==
  /\ "drilldown" \in ran
  /\ chosen_kw # NONE_KW
  /\ \E i \in DOMAIN kw_all :
       /\ kw_all[i].keyword = chosen_kw
       /\ kw_all[i].count # Len(drill_df.rows)

\* C2 as stated: a non-blank query keeps exactly the rows whose text holds
\* the trimmed query as a literal substring, letter case ignored, whatever
\* characters the query has.
C2_SearchIsLiteral ==
  ("explore" \in ran /\ Strip(query) # <<>>) =>
    LET Keep(r) == /\ (sentiment_choice # ALL => r.cells["_sentiment"] = sentiment_choice)
                   /\ LiteralContains(r.cells["_text"], Strip(query))
    IN  /\ pc # "error"
        /\ filtered_df.rows = SelectSeq(df.rows, Keep)

\* C3 as stated: a row whose text cell is missing is kept neither by a
\* non-blank search nor by the drilldown on a chosen keyword.
C3_NullTextNeverKept ==
  /\ ("explore" \in ran /\ Strip(query) # <<>>) =>
       \A i \in DOMAIN filtered_df.rows :
         ~IsNull(Origin(filtered_df.rows[i]).cells[text_col])
  /\ ("drilldown" \in ran /\ chosen_kw # NONE_KW) =>
       \A i \in DOMAIN drill_df.rows :
         ~IsNull(Origin(drill_df.rows[i]).cells[text_col])

\* C9 as stated: after column resolution every column of the loaded file
\* still holds the loaded values in every row, whatever the columns are.
C9_LoadedColumnsKept ==
  ("resolve" \in ran /\ pc # "stopped") =>
    \A i \in DOMAIN df.rows :
      \A c \in Loaded.cols : df.rows[i].cells[c] = Origin(df.rows[i]).cells[c]

============================================================================
